---- MODULE Spec2Model ----
(***************************************************************************)
(* Bipartite matching core of networkx/algorithms/bipartite/matching.py:   *)
(* Hopcroft-Karp maximum matching, alternating-path reachability, Konig    *)
(* vertex cover and the envy-free-matching partition and its derivatives.  *)
(*                                                                         *)
(* Nodes are the integers 0..n-1 and are iterated in ascending order: that *)
(* is the iteration order of a Python set of small integers and of the     *)
(* adjacency of a graph whose nodes and edges were added in sorted order.  *)
(***************************************************************************)
EXTENDS Integers, Sequences, FiniteSets, TLC

VARIABLES
    G,                  \* the graph argument: [n |-> number of nodes, edges |-> set of <<u, v>>,
                        \*   directed |-> whether <<u, v>> is the arc from u to v only]
    top_nodes,          \* the top_nodes argument: [given |-> BOOLEAN, nodes |-> set]
    op,                 \* the public function that was called
    M,                  \* the matching argument: [given |-> BOOLEAN, map |-> function node -> node]
    targets,            \* the targets argument of _connected_by_alternating_paths
    pc,                 \* position of the call
    left, right,        \* hopcroft_karp_matching: the two node sets from bipartite_sets
    leftmatches,        \* hopcroft_karp_matching: left node -> partner or None
    rightmatches,       \* hopcroft_karp_matching: right node -> partner or None
    distances,          \* hopcroft_karp_matching: left node or None -> BFS label
    todo,               \* hopcroft_karp_matching: the left nodes the for loop of line 169 has yet to visit
    num_matched_pairs,  \* hopcroft_karp_matching: counter of line 167
    phases,             \* number of BFS calls that returned True
    matching,           \* the mapping returned by hopcroft_karp_matching
    partition,          \* the 4-tuple returned by envy_free_matching_partition
    efm,                \* the mapping returned by maximum_envy_free_matching
    reach,              \* the set returned by _connected_by_alternating_paths
    cover,              \* the set returned by to_vertex_cover
    raised              \* the exception the call raised, or "none"

vars == <<G, top_nodes, op, M, targets, pc, left, right, leftmatches, rightmatches,
          distances, todo, num_matched_pairs, phases, matching, partition, efm, reach, cover, raised>>

\* Largest number of nodes of a graph handed to a function that computes its
\* own maximum matching.
MaxNodes == 6

\* Largest number of nodes of a graph drawn together with a matching.
MaxMatchNodes == 5

\* Largest number of nodes of a graph drawn together with a set of targets.
MaxReachNodes == 4
MaxDirectedNodes == 3

\* Largest number of nodes of a graph on which the phases of a run are compared.
\* Such a graph of n nodes has n \div 2 left nodes, each with at most n \div 4
\* neighbours; no label of a run exceeds the number of left nodes.
MaxPhaseNodes == 8

\* Largest number of nodes of a graph handed to minimum_weight_envy_free_matching.
MaxWeightNodes == 5

\* Largest number of nodes of a graph on which a run is followed to its end.
MaxLiveNodes == 5
MaxMalformedNodes == 3
MaxLoopNodes == 4
MaxEppsteinNodes == 6
MaxStubNodes == 6

\* The sentinel key of `distances` and the "unmatched" value of leftmatches/rightmatches.
None == -1

\* float("inf"): larger than every label a BFS can assign.
INFINITY == MaxNodes + 1

\* inf + 1 is inf.
Plus1(d) == IF d = INFINITY THEN INFINITY ELSE d + 1

EmptyMap == [x \in {} |-> None]

Min(a, b) == IF a <= b THEN a ELSE b

NoPartition == [X_good |-> {}, X_bad |-> {}, Y_good |-> {}, Y_bad |-> {}]

----------------------------------------------------------------------------
(* Sequences and sets *)

RECURSIVE SetToSeq(_)
\* The elements of a set of integers in ascending order.
SetToSeq(S) ==
    IF S = {} THEN <<>>
    ELSE LET m == CHOOSE x \in S : \A y \in S : x <= y
         IN <<m>> \o SetToSeq(S \ {m})

Range(s) == {s[i] : i \in 1..Len(s)}

----------------------------------------------------------------------------
(* The graph collaborator *)

Nodes(g) == 0..(g.n - 1)

HasEdge(g, u, v) == <<u, v>> \in g.edges \/ <<v, u>> \in g.edges

\* The neighbours of v whatever the direction of the edge.
AllNeighbors(g, v) == {u \in Nodes(g) : HasEdge(g, u, v)}

\* G[v]: the neighbours of v, its successors in a directed graph.
Neighbors(g, v) ==
    IF g.directed THEN {u \in Nodes(g) : <<v, u>> \in g.edges} ELSE AllNeighbors(g, v)

\* iter(G[v])
Adj(g, v) == SetToSeq(Neighbors(g, v))

RECURSIVE Component(_, _)
\* The nodes connected to a node of S, weakly in a directed graph.
Component(g, S) ==
    LET T == S \cup UNION {AllNeighbors(g, v) : v \in S}
    IN IF T = S THEN S ELSE Component(g, T)

is_connected(g) == g.n > 0 /\ Component(g, {0}) = Nodes(g)

RECURSIVE ColorFrom(_, _, _)
\* Two-colouring by breadth-first search: the nodes that get the colour of
\* the start node, given the frontier of that colour and the nodes coloured so far.
ColorFrom(g, frontier, seen) ==
    IF frontier = {} THEN {}
    ELSE LET odd  == (UNION {AllNeighbors(g, v) : v \in frontier}) \ seen
             even == (UNION {AllNeighbors(g, v) : v \in odd}) \ (seen \cup odd)
         IN frontier \cup ColorFrom(g, even, seen \cup odd \cup even)

\* color(G): the nodes coloured 1. The first node with a non-empty G[n] gets 1
\* and starts the search of its component, an isolated node gets 0.
TopColor(g) ==
    LET starts == {v \in Nodes(g) : Neighbors(g, v) # {}}
    IN IF starts = {} THEN {}
       ELSE LET s == CHOOSE v \in starts : \A w \in starts : v <= w
            IN ColorFrom(g, {s}, {s})

\* bipartite_sets(G, top_nodes): what it raises, "none" when it returns.
SetsRaises(g, tn) ==
    IF tn.given THEN "none"
    ELSE IF g.n > 0 /\ ~is_connected(g) THEN "AmbiguousSolution"
    ELSE "none"

\* bipartite_sets(G, top_nodes): the pair (X, Y) it returns.
bipartite_sets(g, tn) ==
    IF tn.given THEN <<tn.nodes, Nodes(g) \ tn.nodes>>
    ELSE <<TopColor(g), Nodes(g) \ TopColor(g)>>

----------------------------------------------------------------------------
(* hopcroft_karp_matching *)

\* The search state the closures of hopcroft_karp_matching share.
\* `events` is the record of what the depth-first searches did with it, in order.
SearchState(lm, rm, d) ==
    [leftmatches |-> lm, rightmatches |-> rm, distances |-> d, events |-> <<>>]

\* One thing a depth-first search did: it entered the node `from` (kind "enter",
\* line 146), it went from `from` to `to` on the test of line 149 (kind "step"), or
\* it gave up on `from` (kind "fail", line 154); with the labels of the two nodes
\* at that moment.
DfsEvent(kind, from, to, st) ==
    [kind |-> kind, from |-> from, to |-> to,
     dfrom |-> st.distances[from], dto |-> st.distances[to]]

RECURSIVE BfsScanNoEnqueue(_, _, _, _, _, _)
\* Fault: BfsScan without the queue.append of line 143.
BfsScanNoEnqueue(nbrs, v, queue, d, rm, writes) ==
    IF nbrs = <<>> THEN [queue |-> queue, distances |-> d, err |-> FALSE, writes |-> writes]
    ELSE LET u == Head(nbrs)
             w == rm[u]
         IN IF d[w] = INFINITY
            THEN BfsScanNoEnqueue(Tail(nbrs), v, queue, [d EXCEPT ![w] = Plus1(d[v])], rm,
                                  Append(writes, <<w, d[w]>>))
            ELSE BfsScanNoEnqueue(Tail(nbrs), v, queue, d, rm, writes)

RECURSIVE BfsScanTwoPerHop(_, _, _, _, _, _)
\* Fault: line 142 counting the two edges of a hop, distances[v] + 2.
BfsScanTwoPerHop(nbrs, v, queue, d, rm, writes) ==
    IF nbrs = <<>> THEN [queue |-> queue, distances |-> d, err |-> FALSE, writes |-> writes]
    ELSE LET u == Head(nbrs)
             w == rm[u]
         IN IF d[w] = INFINITY
            THEN BfsScanTwoPerHop(Tail(nbrs), v, Append(queue, w),
                                  [d EXCEPT ![w] = Plus1(Plus1(d[v]))], rm,
                                  Append(writes, <<w, d[w]>>))
            ELSE BfsScanTwoPerHop(Tail(nbrs), v, queue, d, rm, writes)

RECURSIVE BfsScan(_, _, _, _, _, _)
\* Lines 140-143: the for loop over the neighbours `nbrs` of v. Returns the
\* queue and the distances, whether rightmatches[u] raised KeyError (u is no key
\* of rightmatches when it is not in the right set, line 141), and `writes`
\* extended by every assignment of line 142 as <<node, the label it had before>>.
BfsScan(nbrs, v, queue, d, rm, writes) ==
    IF nbrs = <<>> THEN [queue |-> queue, distances |-> d, err |-> FALSE, writes |-> writes]
    ELSE LET u == Head(nbrs)
             w == rm[u]
         IN IF u \notin DOMAIN rm
            THEN [queue |-> queue, distances |-> d, err |-> TRUE, writes |-> writes]
            ELSE IF d[w] = INFINITY
            THEN BfsScan(Tail(nbrs), v, Append(queue, w), [d EXCEPT ![w] = Plus1(d[v])], rm,
                         Append(writes, <<w, d[w]>>))
            ELSE BfsScan(Tail(nbrs), v, queue, d, rm, writes)

RECURSIVE BfsLoop(_, _, _, _, _)
\* Lines 137-143: the while loop over the queue. Returns the distances, whether
\* the KeyError of line 141 ended the loop, and the assignments of line 142.
BfsLoop(g, queue, d, rm, writes) ==
    IF queue = <<>> THEN [distances |-> d, err |-> FALSE, writes |-> writes]
    ELSE LET v == Head(queue)
         IN IF d[v] < d[None]
            THEN LET r == BfsScan(Adj(g, v), v, Tail(queue), d, rm, writes)
                 IN IF r.err THEN [distances |-> r.distances, err |-> TRUE, writes |-> r.writes]
                    ELSE BfsLoop(g, r.queue, r.distances, rm, r.writes)
            ELSE BfsLoop(g, Tail(queue), d, rm, writes)

\* Fault: line 136 giving the sentinel None the label 0.
BfsInitDistancesSentinelZero(lft, lm) ==
    [v \in lft \cup {None} |->
        IF v = None \/ lm[v] = None THEN 0 ELSE INFINITY]

\* Fault: lines 130-135 giving the matched left nodes the label 0 as well.
BfsInitDistancesAllZero(lft, lm) ==
    [v \in lft \cup {None} |-> IF v # None THEN 0 ELSE INFINITY]

\* Lines 130-136: the labels and the queue the BFS starts from.
BfsInitDistances(lft, lm) ==
    [v \in lft \cup {None} |->
        IF v # None /\ lm[v] = None THEN 0 ELSE INFINITY]

BfsInitQueue(lft, lm) == SelectSeq(SetToSeq(lft), LAMBDA v : lm[v] = None)

\* breadth_first_search(): the distances it leaves.
breadth_first_search(g, lft, lm, rm) ==
    BfsLoop(g, BfsInitQueue(lft, lm), BfsInitDistances(lft, lm), rm, <<>>).distances

\* breadth_first_search() ends with the KeyError of line 141.
BfsRaises(g, lft, lm, rm) ==
    BfsLoop(g, BfsInitQueue(lft, lm), BfsInitDistances(lft, lm), rm, <<>>).err

\* The assignments of line 142 in one breadth_first_search(), in order.
BfsWrites(g, lft, lm, rm) ==
    BfsLoop(g, BfsInitQueue(lft, lm), BfsInitDistances(lft, lm), rm, <<>>).writes

RECURSIVE depth_first_search(_, _, _), DfsScan(_, _, _, _), DfsScanFreeAnyLabel(_, _, _, _),
          DfsScanRightOnly(_, _, _, _)
\* depth_first_search(v): [ok |-> its return value, st |-> the search state it leaves].
\* It runs after a breadth_first_search() that returned, which looked up
\* rightmatches[u] for every neighbour u of every left node: line 149 finds its key.
depth_first_search(g, v, st) ==
    IF v # None
    THEN DfsScan(g, v, Adj(g, v),
                 [st EXCEPT !.events = Append(@, DfsEvent("enter", v, v, st))])
    ELSE [ok |-> TRUE, st |-> st]

\* Fault: line 149 taking an unmatched right neighbour whatever the labels.
DfsScanFreeAnyLabel(g, v, nbrs, st) ==
    IF nbrs = <<>>
    THEN [ok |-> FALSE,
          st |-> [st EXCEPT !.distances[v] = INFINITY,
                            !.events = Append(@, DfsEvent("fail", v, v, st))]]
    ELSE LET u == Head(nbrs)
             w == st.rightmatches[u]
         IN IF w = None \/ st.distances[w] = Plus1(st.distances[v])
            THEN LET r == depth_first_search(g, w,
                              [st EXCEPT !.events = Append(@, DfsEvent("step", v, w, st))])
                 IN IF r.ok
                    THEN [ok |-> TRUE,
                          st |-> [r.st EXCEPT !.rightmatches[u] = v, !.leftmatches[v] = u]]
                    ELSE DfsScanFreeAnyLabel(g, v, Tail(nbrs), r.st)
            ELSE DfsScanFreeAnyLabel(g, v, Tail(nbrs), st)

\* Fault: line 151 left out, the left node of the new pair stays unmatched.
DfsScanRightOnly(g, v, nbrs, st) ==
    IF nbrs = <<>>
    THEN [ok |-> FALSE,
          st |-> [st EXCEPT !.distances[v] = INFINITY,
                            !.events = Append(@, DfsEvent("fail", v, v, st))]]
    ELSE LET u == Head(nbrs)
             w == st.rightmatches[u]
         IN IF st.distances[w] = Plus1(st.distances[v])
            THEN LET r == depth_first_search(g, w,
                              [st EXCEPT !.events = Append(@, DfsEvent("step", v, w, st))])
                 IN IF r.ok
                    THEN [ok |-> TRUE, st |-> [r.st EXCEPT !.rightmatches[u] = v]]
                    ELSE DfsScanRightOnly(g, v, Tail(nbrs), r.st)
            ELSE DfsScanRightOnly(g, v, Tail(nbrs), st)

\* Lines 148-155: the for loop over the neighbours `nbrs` of v that remain.
DfsScan(g, v, nbrs, st) ==
    IF nbrs = <<>>
    THEN [ok |-> FALSE,
          st |-> [st EXCEPT !.distances[v] = INFINITY,
                            !.events = Append(@, DfsEvent("fail", v, v, st))]]
    ELSE LET u == Head(nbrs)
             w == st.rightmatches[u]
         IN IF st.distances[w] = Plus1(st.distances[v])
            THEN LET r == depth_first_search(g, w,
                              [st EXCEPT !.events = Append(@, DfsEvent("step", v, w, st))])
                 IN IF r.ok
                    THEN [ok |-> TRUE,
                          st |-> [r.st EXCEPT !.rightmatches[u] = v, !.leftmatches[v] = u]]
                    ELSE DfsScan(g, v, Tail(nbrs), r.st)
            ELSE DfsScan(g, v, Tail(nbrs), st)

\* Lines 174-175: a search dictionary without the entries matched to None.
StripNone(f) == [k \in {x \in DOMAIN f : f[x] # None} |-> f[k]]

\* Fault: CombineMatches that returns the left matches alone.
CombineMatchesLeftOnly(lm, rm) ==
    [v \in {k \in DOMAIN lm : lm[k] # None} |-> lm[v]]

\* Lines 174-183: strip the None entries and chain the two dictionaries.
CombineMatches(lm, rm) ==
    LET lk == {v \in DOMAIN lm : lm[v] # None}
        rk == {v \in DOMAIN rm : rm[v] # None}
    IN [v \in lk \cup rk |-> IF v \in rk THEN rm[v] ELSE lm[v]]

RECURSIVE DfsRound(_, _, _)
\* Lines 169-171: the for loop over the left nodes `vs` that remain.
DfsRound(g, vs, st) ==
    IF vs = <<>> THEN st
    ELSE LET v == Head(vs)
         IN IF st.leftmatches[v] = None
            THEN DfsRound(g, Tail(vs), depth_first_search(g, v, st).st)
            ELSE DfsRound(g, Tail(vs), st)

RECURSIVE HkLoop(_, _, _)
\* Lines 168-171: the while loop, from the search state st.
HkLoop(g, lft, st) ==
    LET d == breadth_first_search(g, lft, st.leftmatches, st.rightmatches)
    IN IF d[None] # INFINITY
       THEN HkLoop(g, lft, DfsRound(g, SetToSeq(lft), [st EXCEPT !.distances = d]))
       ELSE [st EXCEPT !.distances = d]

\* Lines 160-162: the search state before the first phase.
HkInit(lft, rgt) ==
    SearchState([v \in lft |-> None], [v \in rgt |-> None], EmptyMap)

\* hopcroft_karp_matching(G, top_nodes), when bipartite_sets does not raise.
hopcroft_karp_matching(g, tn) ==
    LET s  == bipartite_sets(g, tn)
        st == HkLoop(g, s[1], HkInit(s[1], s[2]))
    IN CombineMatches(st.leftmatches, st.rightmatches)

----------------------------------------------------------------------------
(* eppstein_matching *)

\* A dictionary that keeps the order in which its keys were inserted.
DictEmpty == [keys |-> <<>>, map |-> EmptyMap]

DictHas(d, k) == k \in DOMAIN d.map

\* d[k] = x
DictPut(d, k, x) ==
    [keys |-> IF DictHas(d, k) THEN d.keys ELSE Append(d.keys, k),
     map  |-> [y \in DOMAIN d.map \cup {k} |-> IF y = k THEN x ELSE d.map[y]]]

\* del d[k], d.pop(k)
DictDel(d, k) ==
    [keys |-> SelectSeq(d.keys, LAMBDA y : y # k),
     map  |-> [y \in DOMAIN d.map \ {k} |-> d.map[y]]]

\* The list `unmatched` as the value of pred[u] for u in the first layer (line 252).
unmatched_flag == -2

RECURSIVE EdgesFrom(_, _, _)
\* The edges at the nodes of `lft` in turn, each edge once: the pairs (u, v) for v in
\* G[u] that has not had its turn as u. A directed graph lists the edges out of u.
EdgesFrom(g, lft, seen) ==
    IF lft = <<>> THEN <<>>
    ELSE LET u    == Head(lft)
             nbrs == SelectSeq(Adj(g, u), LAMBDA v : g.directed \/ v \notin seen)
         IN [i \in 1..Len(nbrs) |-> <<u, nbrs[i]>>] \o EdgesFrom(g, Tail(lft), seen \cup {u})

\* G.edges(left) (line 236): an edge between two nodes of `left` is listed once, from
\* the node that comes first, and a self-loop once.
EdgeList(g, lft) == EdgesFrom(g, lft, {})

RECURSIVE DiGraphNodes(_, _)
\* The nodes of nx.DiGraph(edges), in the order the edges add them.
DiGraphNodes(edges, seen) ==
    IF edges = <<>> THEN seen
    ELSE LET u  == Head(edges)[1]
             v  == Head(edges)[2]
             s1 == IF u \in Range(seen) THEN seen ELSE Append(seen, u)
             s2 == IF v \in Range(s1) THEN s1 ELSE Append(s1, v)
         IN DiGraphNodes(Tail(edges), s2)

\* G[u] in the directed graph of line 236: the end points of the arcs that start at u.
Successors(edges, u) ==
    LET arcs == SelectSeq(edges, LAMBDA e : e[1] = u)
    IN [i \in 1..Len(arcs) |-> arcs[i][2]]

RECURSIVE GreedyMatching(_, _, _)
\* Lines 238-243: the greedy matching, from right nodes to left nodes.
GreedyMatching(edges, nodes, matching_) ==
    IF nodes = <<>> THEN matching_
    ELSE LET u    == Head(nodes)
             free == SelectSeq(Successors(edges, u), LAMBDA v : ~DictHas(matching_, v))
         IN IF free = <<>> THEN GreedyMatching(edges, Tail(nodes), matching_)
            ELSE GreedyMatching(edges, Tail(nodes), DictPut(matching_, Head(free), u))

RECURSIVE InitialPred(_, _)
\* Lines 252-254: pred with every node of the directed graph, less the matched nodes.
InitialPred(nodes, values) ==
    IF values = <<>>
    THEN [keys |-> nodes, map |-> [u \in Range(nodes) |-> unmatched_flag]]
    ELSE DictDel(InitialPred(nodes, Tail(values)), Head(values))

RECURSIVE NewLayerScan(_, _, _, _)
\* Lines 259-263: newLayer from the nodes of `layer` that remain and their successors.
NewLayerScan(edges, layer, preds, newLayer) ==
    IF layer = <<>> THEN newLayer
    ELSE LET u    == Head(layer)
             vs   == SelectSeq(Successors(edges, u), LAMBDA v : ~DictHas(preds, v))
             Add[i \in 0..Len(vs)] ==
                 IF i = 0 THEN newLayer
                 ELSE LET v == vs[i]
                          old == IF DictHas(Add[i - 1], v) THEN Add[i - 1].map[v] ELSE <<>>
                      IN DictPut(Add[i - 1], v, Append(old, u))
         IN NewLayerScan(edges, Tail(layer), preds, Add[Len(vs)])

RECURSIVE NewLayerStore(_, _, _)
\* Lines 264-271: newLayer stored in preds, the next layer and the unmatched nodes.
NewLayerStore(newLayer, todo_, st) ==
    IF todo_ = <<>> THEN st
    ELSE LET v  == Head(todo_)
             s1 == [st EXCEPT !.preds = DictPut(st.preds, v, newLayer.map[v])]
         IN IF DictHas(st.matching, v)
            THEN NewLayerStore(newLayer, Tail(todo_),
                     [s1 EXCEPT !.layer = Append(s1.layer, st.matching.map[v]),
                                !.pred  = DictPut(s1.pred, st.matching.map[v], v)])
            ELSE NewLayerStore(newLayer, Tail(todo_),
                     [s1 EXCEPT !.unmatched = Append(s1.unmatched, v)])

RECURSIVE Layering(_, _)
\* Lines 258-271: the while loop that extends the layering by a pair of layers.
Layering(edges, st) ==
    IF st.layer # <<>> /\ st.unmatched = <<>>
    THEN LET newLayer == NewLayerScan(edges, st.layer, st.preds, DictEmpty)
         IN Layering(edges, NewLayerStore(newLayer, newLayer.keys, [st EXCEPT !.layer = <<>>]))
    ELSE st

RECURSIVE recurse(_, _), RecurseScan(_, _, _)
\* Lines 308-317: recurse(v): [ok |-> its return value, st |-> the state it leaves].
recurse(v, st) ==
    IF DictHas(st.preds, v)
    THEN RecurseScan(v, st.preds.map[v], [st EXCEPT !.preds = DictDel(st.preds, v)])
    ELSE [ok |-> FALSE, st |-> st]

\* Lines 311-316: the for loop over the list L popped from preds.
RecurseScan(v, L, st) ==
    IF L = <<>> THEN [ok |-> FALSE, st |-> st]
    ELSE LET u == Head(L)
         IN IF DictHas(st.pred, u)
            THEN LET pu == st.pred.map[u]
                     s1 == [st EXCEPT !.pred = DictDel(st.pred, u)]
                 IN IF pu = unmatched_flag
                    THEN [ok |-> TRUE, st |-> [s1 EXCEPT !.matching = DictPut(s1.matching, v, u)]]
                    ELSE LET r == recurse(pu, s1)
                         IN IF r.ok
                            THEN [ok |-> TRUE,
                                  st |-> [r.st EXCEPT !.matching = DictPut(r.st.matching, v, u)]]
                            ELSE RecurseScan(v, Tail(L), r.st)
            ELSE RecurseScan(v, Tail(L), st)

RECURSIVE RecurseAll(_, _)
\* Lines 319-320: recurse(v) for every v of `unmatched`.
RecurseAll(vs, st) ==
    IF vs = <<>> THEN st ELSE RecurseAll(Tail(vs), recurse(Head(vs), st).st)

RECURSIVE Symmetrize(_, _)
\* Lines 302-303: every matched node made a key.
Symmetrize(keys, matching_) ==
    IF keys = <<>> THEN matching_
    ELSE Symmetrize(Tail(keys), DictPut(matching_, matching_.map[Head(keys)], Head(keys)))

\* Fault: line 303 left out, the result keeps the right nodes as its only keys.
EppsteinReturnRightOnly(matching_) == matching_.map

\* Lines 302-304: the dictionary eppstein_matching returns.
EppsteinReturn(matching_) == Symmetrize(matching_.keys, matching_).map

RECURSIVE EppsteinLoop(_, _, _)
\* Lines 244-320: the `while True` loop.
EppsteinLoop(edges, nodes, matching_) ==
    LET pred0 == InitialPred(nodes, [i \in 1..Len(matching_.keys) |-> matching_.map[matching_.keys[i]]])
        st    == Layering(edges, [matching |-> matching_, preds |-> DictEmpty, pred |-> pred0,
                                  unmatched |-> <<>>, layer |-> pred0.keys])
    IN IF st.unmatched = <<>> THEN EppsteinReturn(matching_)
       ELSE EppsteinLoop(edges, nodes, RecurseAll(st.unmatched, st).matching)

\* eppstein_matching(G, top_nodes), when bipartite_sets does not raise.
eppstein_matching(g, tn) ==
    LET edges == EdgeList(g, SetToSeq(bipartite_sets(g, tn)[1]))
        nodes == DiGraphNodes(edges, <<>>)
    IN EppsteinLoop(edges, nodes, GreedyMatching(edges, nodes, DictEmpty))

----------------------------------------------------------------------------
(* Alternating-path reachability and the vertex cover *)

\* dict.get: None for a missing key.
MGet(m, k) == IF k \in DOMAIN m THEN m[k] ELSE None

\* Line 409: the matched pairs as unordered edges. A key paired with itself gives a
\* set of one node.
EdgeSets(m) == {{u, m[u]} : u \in DOMAIN m}

\* Lines 367 and 410: `(parent, child) in matched_edges or (child, parent) in
\* matched_edges`, matched_edges holding tuple(edge) for the sets of line 409. The
\* tuple of a set of one node has one entry and equals no (parent, child).
InMatchedEdges(parent, child, matched_edges) ==
    parent # child /\ {parent, child} \in matched_edges

\* Lines 367 and 411-413: the same test in unmatched_edges, which holds the pairs of
\* G.edges(); a self-loop is the pair (u, u).
InUnmatchedEdges(parent, child, unmatched_edges) == {parent, child} \in unmatched_edges

\* Lines 411-413: the edges of G outside the matching, as unordered edges.
UnmatchedEdges(g, m) == {{e[1], e[2]} : e \in g.edges} \ EdgeSets(m)

RECURSIVE AlternatingDfsLoop(_, _, _, _, _, _)
\* Lines 363-376 of _alternating_dfs: the while loop over the stack of
\* (parent, iterator over its children, depth).
AlternatingDfsLoop(g, matched_edges, unmatched_edges, tg, stack, visited) ==
    IF stack = <<>> THEN FALSE
    ELSE LET top == stack[Len(stack)]
         IN IF top.children = <<>>
            THEN AlternatingDfsLoop(g, matched_edges, unmatched_edges, tg,
                                    SubSeq(stack, 1, Len(stack) - 1), visited)
            ELSE LET child == Head(top.children)
                     in_valid_edges ==
                         IF top.depth % 2 = 1
                         THEN InMatchedEdges(top.parent, child, matched_edges)
                         ELSE InUnmatchedEdges(top.parent, child, unmatched_edges)
                     rest == [stack EXCEPT ![Len(stack)].children = Tail(top.children)]
                 IN IF child \notin visited /\ in_valid_edges
                    THEN IF child \in tg THEN TRUE
                         ELSE AlternatingDfsLoop(g, matched_edges, unmatched_edges, tg,
                                  Append(rest, [parent |-> child, children |-> Adj(g, child),
                                                depth |-> top.depth + 1]),
                                  visited \cup {child})
                    ELSE AlternatingDfsLoop(g, matched_edges, unmatched_edges, tg, rest, visited)

\* _alternating_dfs(u, along_matched)
AlternatingDfs(g, matched_edges, unmatched_edges, tg, u, along_matched) ==
    AlternatingDfsLoop(g, matched_edges, unmatched_edges, tg,
        <<[parent |-> u, children |-> Adj(g, u), depth |-> IF along_matched THEN 0 ELSE 1]>>, {})

\* Fault: _is_connected_by_alternating_path without its second search.
IsConnectedFirstSearchOnly(g, v, matched_edges, unmatched_edges, tg) ==
    AlternatingDfs(g, matched_edges, unmatched_edges, tg, v, TRUE)

\* _is_connected_by_alternating_path(G, v, matched_edges, unmatched_edges, targets)
IsConnectedByAlternatingPath(g, v, matched_edges, unmatched_edges, tg) ==
    \/ AlternatingDfs(g, matched_edges, unmatched_edges, tg, v, TRUE)
    \/ AlternatingDfs(g, matched_edges, unmatched_edges, tg, v, FALSE)

\* Fault: line 418 without `v in targets or`.
IsTargetNever(v, tg) == FALSE

\* Line 418: the test that puts a target in the result without a search.
IsTarget(v, tg) == v \in tg

\* _connected_by_alternating_paths(G, matching, targets)
ConnectedByAlternatingPaths(g, m, tg) ==
    {v \in Nodes(g) :
        \/ IsTarget(v, tg)
        \/ IsConnectedByAlternatingPath(g, v, EdgeSets(m), UnmatchedEdges(g, m), tg)}

\* Lines 494-495: the unmatched vertices of the left set L.
UnmatchedLeft(g, m, L) == (Nodes(g) \ DOMAIN m) \cap L

\* Fault: line 501 without `| (R & Z)`.
CoverFromLeftOnly(L, R, Z) == L \ Z

\* Line 501: the cover from the two sides and the reachable set Z.
CoverFrom(L, R, Z) == (L \ Z) \cup (R \cap Z)

\* to_vertex_cover(G, matching, top_nodes), when bipartite_sets does not raise.
to_vertex_cover(g, m, tn) ==
    LET s == bipartite_sets(g, tn)
        Z == ConnectedByAlternatingPaths(g, m, UnmatchedLeft(g, m, s[1]))
    IN CoverFrom(s[1], s[2], Z)

----------------------------------------------------------------------------
(* The envy-free-matching partition *)

\* Fault: lines 664-671 looking at the neighbours of one node of X_subsets[-1] only.
YCurrentOfOneNode(g, m, Xlast, acc) ==
    {nbr \in Nodes(g) :
        \E n \in {x \in Xlast : \A z \in Xlast : x <= z} :
            /\ nbr \in Neighbors(g, n)
            /\ nbr \notin acc
            /\ MGet(m, n) # nbr
            /\ MGet(m, nbr) # n}

\* Lines 664-671: Y_current from the last X set and the Y nodes seen so far.
YCurrent(g, m, Xlast, acc) ==
    {nbr \in Nodes(g) :
        \E n \in Xlast : /\ nbr \in Neighbors(g, n)
                         /\ nbr \notin acc
                         /\ MGet(m, n) # nbr
                         /\ MGet(m, nbr) # n}

\* Lines 674-679: X_current from Y_current.
XCurrent(g, m, Ycur) ==
    {nbr \in Nodes(g) :
        \E n \in Ycur : /\ nbr \in Neighbors(g, n)
                        /\ MGet(m, n) = nbr
                        /\ MGet(m, nbr) = n}

\* Fault: the loop of _M_alternating_sequence leaving after its first iteration.
AlternatingSequenceOnce(g, m, X_subsets, Y_subsets, acc) ==
    LET Y_current == YCurrent(g, m, X_subsets[Len(X_subsets)], acc)
        X_current == XCurrent(g, m, Y_current)
    IN IF Y_current = {} \/ X_current = {}
       THEN [X |-> X_subsets, Y |-> Y_subsets, passes |-> 1]
       ELSE [X |-> Append(X_subsets, X_current), Y |-> Append(Y_subsets, Y_current),
             passes |-> 1]

RECURSIVE AlternatingSequenceAppendsLast(_, _, _, _, _)
\* Fault: the two `break` of lines 672-673 and 680-681 placed after the appends.
AlternatingSequenceAppendsLast(g, m, X_subsets, Y_subsets, acc) ==
    LET Y_current == YCurrent(g, m, X_subsets[Len(X_subsets)], acc)
        X_current == XCurrent(g, m, Y_current)
    IN IF Y_current = {} \/ X_current = {}
       THEN [X |-> Append(X_subsets, X_current), Y |-> Append(Y_subsets, Y_current),
             passes |-> 1]
       ELSE LET r == AlternatingSequenceAppendsLast(g, m, Append(X_subsets, X_current),
                         Append(Y_subsets, Y_current), acc \cup Y_current)
            IN [r EXCEPT !.passes = @ + 1]

RECURSIVE AlternatingSequenceLoop(_, _, _, _, _)
\* Lines 663-688: the while loop of _M_alternating_sequence. `passes` counts the
\* times its body was entered.
AlternatingSequenceLoop(g, m, X_subsets, Y_subsets, acc) ==
    IF Len(X_subsets) = 1
       \/ (X_subsets[Len(X_subsets)] # {} /\ Y_subsets[Len(Y_subsets)] # {})
    THEN LET Y_current == YCurrent(g, m, X_subsets[Len(X_subsets)], acc)
             X_current == XCurrent(g, m, Y_current)
         IN IF Y_current = {} \/ X_current = {}
            THEN [X |-> X_subsets, Y |-> Y_subsets, passes |-> 1]
            ELSE LET r == AlternatingSequenceLoop(g, m, Append(X_subsets, X_current),
                              Append(Y_subsets, Y_current), acc \cup Y_current)
                 IN [r EXCEPT !.passes = @ + 1]
    ELSE [X |-> X_subsets, Y |-> Y_subsets, passes |-> 0]

\* Fault: X_0 taken as every node of G unmatched by M, of either side.
M_alternating_sequence_AllUnmatched(g, m, tn) ==
    LET X_0 == Nodes(g) \ DOMAIN m
    IN IF X_0 = {} THEN [X |-> <<>>, Y |-> <<>>, passes |-> 0]
       ELSE AlternatingSequenceLoop(g, m, <<X_0>>, <<>>, {})

\* _M_alternating_sequence(G, M, top_nodes=top_nodes)
M_alternating_sequence(g, m, tn) ==
    LET X_0 == bipartite_sets(g, tn)[1] \ DOMAIN m
    IN IF X_0 = {} THEN [X |-> <<>>, Y |-> <<>>, passes |-> 0]
       ELSE AlternatingSequenceLoop(g, m, <<X_0>>, <<>>, {})

UnionAll(sets) == UNION Range(sets)

\* Fault: X_S without X_0, the first set of the sequence.
PartitionWithoutX0(g, m, tn) ==
    LET s   == bipartite_sets(g, tn)
        seq == M_alternating_sequence(g, m, tn)
        X_S == IF seq.X = <<>> THEN {} ELSE UnionAll(Tail(seq.X))
        Y_S == UnionAll(seq.Y)
    IN [X_good |-> s[1] \ X_S, X_bad |-> X_S, Y_good |-> s[2] \ Y_S, Y_bad |-> Y_S]

\* Lines 776-780 of envy_free_matching_partition, for the matching m.
envy_free_matching_partition(g, m, tn) ==
    LET s   == bipartite_sets(g, tn)
        seq == M_alternating_sequence(g, m, tn)
        X_S == UnionAll(seq.X)
        Y_S == UnionAll(seq.Y)
    IN [X_good |-> s[1] \ X_S, X_bad |-> X_S, Y_good |-> s[2] \ Y_S, Y_bad |-> Y_S]

\* Fault: `un` built from partition[0] and partition[2], the good sets.
GoodPairsWrongIndex(m, p) ==
    LET un == p.X_good \cup p.Y_good
    IN [node \in {k \in DOMAIN m : k \notin un /\ m[k] \notin un} |-> m[node]]

\* Lines 872-873: the pairs of m with no endpoint in a bad set.
GoodPairs(m, p) ==
    LET un == p.X_bad \cup p.Y_bad
    IN [node \in {k \in DOMAIN m : k \notin un /\ m[k] \notin un} |-> m[node]]

\* maximum_envy_free_matching(G, top_nodes=top_nodes), when bipartite_sets does not raise.
maximum_envy_free_matching(g, tn) ==
    LET m == hopcroft_karp_matching(g, tn)
    IN GoodPairs(m, envy_free_matching_partition(g, m, tn))

----------------------------------------------------------------------------
(* Inputs *)

\* The bipartite graphs on the nodes 0..n-1 whose sides are 0..nl-1 and nl..n-1.
GraphsOn(n, nl) ==
    {[n |-> n, edges |-> E, directed |-> FALSE] :
        E \in SUBSET ((0..(nl - 1)) \X (nl..(n - 1)))}

Touches(e, f) == {e[1], e[2]} \cap {f[1], f[2]} # {}

RECURSIVE MatchingEdgeSets(_)
\* The sets of pairwise disjoint edges among E.
MatchingEdgeSets(E) ==
    IF E = {} THEN {{}}
    ELSE LET e == CHOOSE x \in E : TRUE
         IN MatchingEdgeSets(E \ {e})
            \cup {m \cup {e} : m \in MatchingEdgeSets({f \in E : ~Touches(e, f)})}

\* The matching dictionary of a set of disjoint edges: both directions of every pair.
AsMap(S) ==
    [v \in UNION {{e[1], e[2]} : e \in S} |->
        LET e == CHOOSE x \in S : v \in {x[1], x[2]}
        IN IF e[1] = v THEN e[2] ELSE e[1]]

\* Every matching of g, as a dictionary.
Matchings(g) == {AsMap(S) : S \in MatchingEdgeSets(g.edges)}

\* The number of pairs of a maximum matching of g.
MaxMatchingSize(g) ==
    LET sizes == {Cardinality(S) : S \in MatchingEdgeSets(g.edges)}
    IN CHOOSE k \in sizes : \A j \in sizes : j <= k

MaximumMatchings(g) ==
    {AsMap(S) : S \in {T \in MatchingEdgeSets(g.edges) : Cardinality(T) = MaxMatchingSize(g)}}

NoMatching == [given |-> FALSE, map |-> EmptyMap]

\* The state of a call at position `at`, before any of its lines ran.
Start(g, tn, f, m, tg, at) ==
    /\ G = g
    /\ top_nodes = tn
    /\ op = f
    /\ M = m
    /\ targets = tg
    /\ pc = at
    /\ left = {}
    /\ right = {}
    /\ leftmatches = EmptyMap
    /\ rightmatches = EmptyMap
    /\ distances = EmptyMap
    /\ todo = <<>>
    /\ num_matched_pairs = 0
    /\ phases = 0
    /\ matching = EmptyMap
    /\ partition = NoPartition
    /\ efm = EmptyMap
    /\ reach = {}
    /\ cover = {}
    /\ raised = "none"

\* The top_nodes argument: omitted, or one of the two sides 0..nl-1 and nl..n-1.
Hints(n, nl) ==
    {[given |-> FALSE, nodes |-> {}],
     [given |-> TRUE, nodes |-> 0..(nl - 1)],
     [given |-> TRUE, nodes |-> nl..(n - 1)]}

\* A call of a function that computes its own maximum matching.
Init ==
    \E n \in 0..MaxNodes : \E nl \in 0..n : \E g \in GraphsOn(n, nl) : \E tn \in Hints(n, nl) :
    \E f \in {"maximum_matching", "envy_free_matching_partition", "maximum_envy_free_matching"} :
        Start(g, tn, f, NoMatching, {}, "call")

\* A call of a function that is handed a matching of G.
InitM ==
    \E n \in 0..MaxMatchNodes : \E nl \in 0..n : \E g \in GraphsOn(n, nl) : \E tn \in Hints(n, nl) :
    \E f \in {"to_vertex_cover", "envy_free_matching_partition"} :
    \E m \in Matchings(g) :
        Start(g, tn, f, [given |-> TRUE, map |-> m], {}, "call")

\* A call of envy_free_matching of envy_free_matching.py, which takes the graph alone.
InitStub ==
    \E n \in 0..MaxStubNodes : \E nl \in 0..n : \E g \in GraphsOn(n, nl) :
        Start(g, [given |-> FALSE, nodes |-> {}], "envy_free_matching", NoMatching, {}, "call")

\* A call of eppstein_matching.
InitEppstein ==
    \E n \in 0..MaxEppsteinNodes : \E nl \in 0..n : \E g \in GraphsOn(n, nl) :
    \E tn \in Hints(n, nl) :
        Start(g, tn, "eppstein_matching", NoMatching, {}, "call")

\* The graphs on n nodes with sides 0..nl-1 and nl..n-1 that have a self-loop.
LoopGraphsOn(n, nl) ==
    {[n |-> n, edges |-> E \cup {<<v, v>> : v \in S}, directed |-> FALSE] :
        E \in SUBSET ((0..(nl - 1)) \X (nl..(n - 1))),
        S \in (SUBSET (0..(n - 1))) \ {{}}}

\* A call of maximum_matching with top_nodes on a graph with a self-loop.
InitLoops ==
    \E n \in 1..MaxLoopNodes : \E nl \in 0..n : \E g \in LoopGraphsOn(n, nl) :
    \E tn \in {h \in Hints(n, nl) : h.given} :
        Start(g, tn, "maximum_matching", NoMatching, {}, "call")

\* A matching argument that is no matching of g: a key or a value that is no node
\* of g, or a pair stored in one direction only.
Malformed(g, m) ==
    \E k \in DOMAIN m :
        \/ k \notin Nodes(g)
        \/ m[k] \notin Nodes(g)
        \/ m[k] \notin DOMAIN m
        \/ m[m[k]] # k

\* The malformed dictionaries over the nodes of g and one label, g.n, outside it.
MalformedMaps(g) ==
    {m \in UNION {[D -> 0..g.n] : D \in SUBSET (0..g.n)} : Malformed(g, m)}

\* A call of a function that is handed a dictionary that is no matching of G.
InitMalformed ==
    \E n \in 0..MaxMalformedNodes : \E nl \in 0..n : \E g \in GraphsOn(n, nl) :
    \E tn \in Hints(n, nl) :
    \E f \in {"to_vertex_cover", "envy_free_matching_partition"} :
    \E m \in MalformedMaps(g) :
        Start(g, tn, f, [given |-> TRUE, map |-> m], {}, "call")

\* The directed graphs on n nodes whose arcs join 0..nl-1 and nl..n-1, either way.
DirectedGraphsOn(n, nl) ==
    {[n |-> n, edges |-> E, directed |-> TRUE] :
        E \in SUBSET ((0..(nl - 1)) \X (nl..(n - 1)) \cup (nl..(n - 1)) \X (0..(nl - 1)))}

\* The matchings handed over with a directed graph: none, or one along its arcs.
MatchingArguments(g, f) ==
    IF f \in {"to_vertex_cover", "envy_free_matching_partition"}
    THEN {[given |-> TRUE, map |-> m] : m \in Matchings(g)}
         \cup (IF f = "to_vertex_cover" THEN {} ELSE {NoMatching})
    ELSE {NoMatching}

\* A call of any public function on a directed graph.
InitDirected ==
    \E n \in 1..MaxDirectedNodes : \E nl \in 1..n : \E g \in DirectedGraphsOn(n, nl) :
    \E tn \in Hints(n, nl) :
    \E f \in {"maximum_matching", "to_vertex_cover", "envy_free_matching_partition",
              "maximum_envy_free_matching", "minimum_weight_envy_free_matching"} :
    \E m \in MatchingArguments(g, f) :
        Start(g, tn, f, m, {}, "call")

\* A call of _connected_by_alternating_paths with a matching of G and targets among its nodes.
InitReach ==
    \E n \in 0..MaxReachNodes : \E nl \in 0..n : \E g \in GraphsOn(n, nl) :
    \E m \in Matchings(g) : \E tg \in SUBSET Nodes(g) :
        Start(g, [given |-> FALSE, nodes |-> {}], "_connected_by_alternating_paths",
              [given |-> TRUE, map |-> m], tg, "reach")

----------------------------------------------------------------------------
(* Steps of a call *)

EngineOps ==
    {"maximum_matching", "envy_free_matching_partition", "maximum_envy_free_matching",
     "envy_free_matching", "minimum_weight_envy_free_matching"}

\* The function runs hopcroft_karp_matching first (lines 775, 870, and line 148 of
\* envy_free_matching.py).
RunsEngine == op \in EngineOps /\ ~M.given

\* The decorators of maximum_envy_free_matching and minimum_weight_envy_free_matching
\* (lines 783, 876) refuse a directed graph; no other function carries them.
Rejects ==
    G.directed /\ op \in {"maximum_envy_free_matching", "minimum_weight_envy_free_matching"}

\* not_implemented_for("directed") raises before the body of the function runs.
RaiseNotImplemented ==
    /\ pc = "call"
    /\ Rejects
    /\ raised' = "NetworkXNotImplemented"
    /\ pc' = "raised"
    /\ UNCHANGED <<G, top_nodes, op, M, targets, left, right, leftmatches, rightmatches,
                   distances, todo, num_matched_pairs, phases, matching, partition, efm,
                   reach, cover>>

\* bipartite_sets raises at the first line of the call (lines 159, 492, 776).
RaiseFromSets ==
    /\ pc = "call"
    /\ ~Rejects
    /\ SetsRaises(G, top_nodes) # "none"
    /\ raised' = SetsRaises(G, top_nodes)
    /\ pc' = "raised"
    /\ UNCHANGED <<G, top_nodes, op, M, targets, left, right, leftmatches, rightmatches,
                   distances, todo, num_matched_pairs, phases, matching, partition, efm,
                   reach, cover>>

\* Fault: the search starting although bipartite_sets raised.
InitSearchUnchecked ==
    /\ pc = "call"
    /\ RunsEngine
    /\ ~Rejects
    /\ LET s == bipartite_sets(G, top_nodes)
       IN /\ left' = s[1]
          /\ right' = s[2]
          /\ leftmatches' = HkInit(s[1], s[2]).leftmatches
          /\ rightmatches' = HkInit(s[1], s[2]).rightmatches
          /\ distances' = HkInit(s[1], s[2]).distances
    /\ num_matched_pairs' = 0
    /\ pc' = "bfs"
    /\ UNCHANGED <<G, top_nodes, op, M, targets, todo, phases, matching, partition, efm,
                   reach, cover, raised>>

\* Lines 159-167: the sets and the empty search state.
InitSearch ==
    /\ pc = "call"
    /\ RunsEngine
    /\ ~Rejects
    /\ SetsRaises(G, top_nodes) = "none"
    /\ LET s == bipartite_sets(G, top_nodes)
       IN /\ left' = s[1]
          /\ right' = s[2]
          /\ leftmatches' = HkInit(s[1], s[2]).leftmatches
          /\ rightmatches' = HkInit(s[1], s[2]).rightmatches
          /\ distances' = HkInit(s[1], s[2]).distances
    /\ num_matched_pairs' = 0
    /\ pc' = "bfs"
    /\ UNCHANGED <<G, top_nodes, op, M, targets, todo, phases, matching, partition, efm,
                   reach, cover, raised>>

\* Line 168: one evaluation of the while condition, a whole breadth_first_search().
Bfs ==
    /\ pc = "bfs"
    /\ distances' = breadth_first_search(G, left, leftmatches, rightmatches)
    /\ IF BfsRaises(G, left, leftmatches, rightmatches)
       THEN /\ raised' = "KeyError"
            /\ pc' = "raised"
            /\ UNCHANGED <<todo, phases>>
       ELSE IF distances'[None] # INFINITY
       THEN /\ pc' = "dfs"
            /\ todo' = SetToSeq(left)
            /\ phases' = phases + 1
            /\ UNCHANGED raised
       ELSE /\ pc' = "strip"
            /\ UNCHANGED <<todo, phases, raised>>
    /\ UNCHANGED <<G, top_nodes, op, M, targets, left, right, leftmatches, rightmatches,
                   num_matched_pairs, matching, partition, efm, reach, cover>>

\* Fault: the for loop of lines 169-171 left at the first search that succeeds.
DfsStepOnePerPhase ==
    /\ pc = "dfs"
    /\ todo # <<>>
    /\ LET v == Head(todo)
           r == depth_first_search(G, v, SearchState(leftmatches, rightmatches, distances))
       IN IF leftmatches[v] = None
          THEN /\ leftmatches' = r.st.leftmatches
               /\ rightmatches' = r.st.rightmatches
               /\ distances' = r.st.distances
               /\ num_matched_pairs' = IF r.ok THEN num_matched_pairs + 1 ELSE num_matched_pairs
               /\ todo' = IF r.ok THEN <<>> ELSE Tail(todo)
               /\ pc' = IF r.ok \/ Tail(todo) = <<>> THEN "bfs" ELSE "dfs"
          ELSE /\ UNCHANGED <<leftmatches, rightmatches, distances, num_matched_pairs>>
               /\ todo' = Tail(todo)
               /\ pc' = IF Tail(todo) = <<>> THEN "bfs" ELSE "dfs"
    /\ UNCHANGED <<G, top_nodes, op, M, targets, left, right, phases, matching, partition,
                   efm, reach, cover, raised>>

\* Lines 169-171: one iteration of the for loop, a whole top-level depth_first_search(v).
DfsStep ==
    /\ pc = "dfs"
    /\ todo # <<>>
    /\ LET v == Head(todo)
           r == depth_first_search(G, v, SearchState(leftmatches, rightmatches, distances))
       IN IF leftmatches[v] = None
          THEN /\ leftmatches' = r.st.leftmatches
               /\ rightmatches' = r.st.rightmatches
               /\ distances' = r.st.distances
               /\ num_matched_pairs' = IF r.ok THEN num_matched_pairs + 1 ELSE num_matched_pairs
          ELSE UNCHANGED <<leftmatches, rightmatches, distances, num_matched_pairs>>
    /\ todo' = Tail(todo)
    /\ pc' = IF Tail(todo) = <<>> THEN "bfs" ELSE "dfs"
    /\ UNCHANGED <<G, top_nodes, op, M, targets, left, right, phases, matching, partition,
                   efm, reach, cover, raised>>

\* Lines 174-183: hopcroft_karp_matching strips its two dictionaries and returns.
Strip ==
    /\ pc = "strip"
    /\ leftmatches' = StripNone(leftmatches)
    /\ rightmatches' = StripNone(rightmatches)
    /\ matching' = CombineMatches(leftmatches, rightmatches)
    /\ pc' = IF op = "maximum_matching" THEN "returned"
             ELSE IF op = "envy_free_matching" THEN "submatching"
             ELSE "partition"
    /\ UNCHANGED <<G, top_nodes, op, M, targets, left, right, distances, todo,
                   num_matched_pairs, phases, partition, efm, reach, cover, raised>>

\* Line 776 of envy_free_matching_partition called with a matching.
PartitionCall ==
    /\ pc = "call"
    /\ op = "envy_free_matching_partition"
    /\ M.given
    /\ SetsRaises(G, top_nodes) = "none"
    /\ left' = bipartite_sets(G, top_nodes)[1]
    /\ right' = bipartite_sets(G, top_nodes)[2]
    /\ pc' = "partition"
    /\ UNCHANGED <<G, top_nodes, op, M, targets, leftmatches, rightmatches, distances, todo,
                   num_matched_pairs, phases, matching, partition, efm, reach, cover, raised>>

\* The matching envy_free_matching_partition works on: its argument, or the
\* one it computed (line 775).
PartitionMatching == IF M.given THEN M.map ELSE matching

\* Lines 777-780: the partition from the alternating sequence.
Partition ==
    /\ pc = "partition"
    /\ partition' = envy_free_matching_partition(G, PartitionMatching, top_nodes)
    /\ pc' = IF op = "maximum_envy_free_matching" THEN "filter"
             ELSE IF op = "minimum_weight_envy_free_matching" THEN "full_matching"
             ELSE "returned"
    /\ UNCHANGED <<G, top_nodes, op, M, targets, left, right, leftmatches, rightmatches,
                   distances, todo, num_matched_pairs, phases, matching, efm, reach, cover,
                   raised>>

\* Lines 872-873: maximum_envy_free_matching returns.
Filter ==
    /\ pc = "filter"
    /\ efm' = GoodPairs(matching, partition)
    /\ pc' = "returned"
    /\ UNCHANGED <<G, top_nodes, op, M, targets, left, right, leftmatches, rightmatches,
                   distances, todo, num_matched_pairs, phases, matching, partition, reach,
                   cover, raised>>

RECURSIVE InducedComponent(_, _, _)
\* The nodes of the subgraph of g induced by S that are connected in it to a node of T.
InducedComponent(g, S, T) ==
    LET U == T \cup (S \cap UNION {AllNeighbors(g, v) : v \in T})
    IN IF U = T THEN T ELSE InducedComponent(g, S, U)

\* Line 578 for G.subgraph(S): bipartite_sets without top_nodes, what it raises.
SubgraphSetsRaises(g, S) ==
    IF S = {} THEN "none"
    ELSE IF InducedComponent(g, S, {CHOOSE v \in S : \A w \in S : v <= w}) # S
    THEN "AmbiguousSolution"
    ELSE "none"

\* Lines 592-597 for G.subgraph(S), every edge of the same weight: the full
\* matchings of the subgraph, a matching of min(|U|, |V|) pairs for its two sides.
FullMatchings(g, S, L) ==
    LET E == {e \in g.edges : e[1] \in S /\ e[2] \in S}
        k == Min(Cardinality(S \cap L), Cardinality(S \ L))
    IN {AsMap(T) : T \in {T \in MatchingEdgeSets(E) : Cardinality(T) = k}}

\* Line 958: minimum_weight_full_matching(G.subgraph(union_partition)), called
\* without top_nodes. It raises ValueError if the subgraph has no full matching
\* (lines 552-554) and otherwise returns one of the full matchings.
FullMatching ==
    /\ pc = "full_matching"
    /\ LET S == partition.X_good \cup partition.Y_good
       IN IF SubgraphSetsRaises(G, S) # "none"
          THEN /\ raised' = SubgraphSetsRaises(G, S)
               /\ pc' = "raised"
               /\ UNCHANGED efm
          ELSE IF FullMatchings(G, S, left) = {}
          THEN /\ raised' = "ValueError"
               /\ pc' = "raised"
               /\ UNCHANGED efm
          ELSE /\ efm' \in FullMatchings(G, S, left)
               /\ pc' = "returned"
               /\ UNCHANGED raised
    /\ UNCHANGED <<G, top_nodes, op, M, targets, left, right, leftmatches, rightmatches,
                   distances, todo, num_matched_pairs, phases, matching, partition, reach,
                   cover>>

\* Fault: to_vertex_cover refusing a matching that is not maximum.
CoverCallMaximumOnly ==
    /\ pc = "call"
    /\ op = "to_vertex_cover"
    /\ SetsRaises(G, top_nodes) = "none"
    /\ IF M.map \in MaximumMatchings(G)
       THEN /\ left' = bipartite_sets(G, top_nodes)[1]
            /\ right' = bipartite_sets(G, top_nodes)[2]
            /\ targets' = UnmatchedLeft(G, M.map, bipartite_sets(G, top_nodes)[1])
            /\ pc' = "reach"
            /\ UNCHANGED raised
       ELSE /\ raised' = "NetworkXError"
            /\ pc' = "raised"
            /\ UNCHANGED <<left, right, targets>>
    /\ UNCHANGED <<G, top_nodes, op, M, leftmatches, rightmatches, distances, todo,
                   num_matched_pairs, phases, matching, partition, efm, reach, cover>>

\* Line 153 of envy_free_matching.py: the partition written into the function.
EFM_PARTITION == <<{}, 0..5, {}, 6..9>>

\* Lines 155-157 of envy_free_matching.py: the pairs of m with no end in
\* EFM_PARTITION[1] or EFM_PARTITION[3].
SubMatchingOf(m) ==
    LET un == EFM_PARTITION[2] \cup EFM_PARTITION[4]
    IN [node \in {k \in DOMAIN m : k \notin un /\ m[k] \notin un} |-> m[node]]

\* Lines 153-162 of envy_free_matching.py: envy_free_matching returns.
SubMatching ==
    /\ pc = "submatching"
    /\ efm' = SubMatchingOf(matching)
    /\ pc' = "returned"
    /\ UNCHANGED <<G, top_nodes, op, M, targets, left, right, leftmatches, rightmatches,
                   distances, todo, num_matched_pairs, phases, matching, partition, reach,
                   cover, raised>>

\* Lines 492-495 of to_vertex_cover: the sets and the unmatched left vertices U.
CoverCall ==
    /\ pc = "call"
    /\ op = "to_vertex_cover"
    /\ SetsRaises(G, top_nodes) = "none"
    /\ left' = bipartite_sets(G, top_nodes)[1]
    /\ right' = bipartite_sets(G, top_nodes)[2]
    /\ targets' = UnmatchedLeft(G, M.map, bipartite_sets(G, top_nodes)[1])
    /\ pc' = "reach"
    /\ UNCHANGED <<G, top_nodes, op, M, leftmatches, rightmatches, distances, todo,
                   num_matched_pairs, phases, matching, partition, efm, reach, cover, raised>>

\* Line 498, or a direct call: _connected_by_alternating_paths(G, matching, targets).
Reach ==
    /\ pc = "reach"
    /\ reach' = ConnectedByAlternatingPaths(G, M.map, targets)
    /\ pc' = IF op = "to_vertex_cover" THEN "cover" ELSE "returned"
    /\ UNCHANGED <<G, top_nodes, op, M, targets, left, right, leftmatches, rightmatches,
                   distances, todo, num_matched_pairs, phases, matching, partition, efm,
                   cover, raised>>

\* Line 501: to_vertex_cover returns.
Cover ==
    /\ pc = "cover"
    /\ cover' = CoverFrom(left, right, reach)
    /\ pc' = "returned"
    /\ UNCHANGED <<G, top_nodes, op, M, targets, left, right, leftmatches, rightmatches,
                   distances, todo, num_matched_pairs, phases, matching, partition, efm,
                   reach, raised>>

Next == RaiseFromSets \/ InitSearch \/ Bfs \/ DfsStep \/ Strip \/ Partition \/ Filter

Spec == Init /\ [][Next]_vars

NextM == RaiseFromSets \/ PartitionCall \/ Partition \/ CoverCall \/ Reach \/ Cover

SpecM == InitM /\ [][NextM]_vars

\* Lines 235-304: a whole call of eppstein_matching.
Eppstein ==
    /\ pc = "call"
    /\ op = "eppstein_matching"
    /\ SetsRaises(G, top_nodes) = "none"
    /\ matching' = eppstein_matching(G, top_nodes)
    /\ pc' = "returned"
    /\ UNCHANGED <<G, top_nodes, op, M, targets, left, right, leftmatches, rightmatches,
                   distances, todo, num_matched_pairs, phases, partition, efm, reach, cover,
                   raised>>

NextStub == RaiseFromSets \/ InitSearch \/ Bfs \/ DfsStep \/ Strip \/ SubMatching

SpecStub == InitStub /\ [][NextStub]_vars

NextEppstein == RaiseFromSets \/ Eppstein

SpecEppstein == InitEppstein /\ [][NextEppstein]_vars

NextLoops == InitSearch \/ Bfs \/ DfsStep \/ Strip

SpecLoops == InitLoops /\ [][NextLoops]_vars

SpecMalformed == InitMalformed /\ [][NextM]_vars

NextDirected ==
    \/ RaiseNotImplemented
    \/ RaiseFromSets
    \/ InitSearch
    \/ Bfs
    \/ DfsStep
    \/ Strip
    \/ PartitionCall
    \/ Partition
    \/ CoverCall
    \/ Reach
    \/ Cover

SpecDirected == InitDirected /\ [][NextDirected]_vars

\* A call of hopcroft_karp_matching, under its alias maximum_matching (line 507).
InitLive ==
    \E n \in 0..MaxLiveNodes : \E nl \in 0..n : \E g \in GraphsOn(n, nl) : \E tn \in Hints(n, nl) :
        Start(g, tn, "maximum_matching", NoMatching, {}, "call")

NextLive == RaiseFromSets \/ InitSearch \/ Bfs \/ DfsStep \/ Strip

\* The positions of a call of hopcroft_karp_matching.
LivePositions == {"call", "bfs", "dfs", "strip", "returned", "raised"}

\* A step of NextLive outside the for loop of lines 169-171, seen from the control
\* of the call alone: the position changes.
AdvancePosition == pc \in {"call", "bfs", "strip"} /\ pc' \in LivePositions

\* A step of NextLive inside the for loop: the loop moves on to its next node.
AdvanceLoop == pc = "dfs" /\ todo # <<>> /\ todo' = Tail(todo)

\* The call is one sequential thread of control: while it has not ended, it runs
\* its next line. Every step of NextLive changes the position or shortens todo,
\* and one of the two is possible exactly while the call has not ended.
SpecLive ==
    InitLive /\ [][NextLive]_vars /\ WF_pc(AdvancePosition) /\ WF_todo(AdvanceLoop)

\* The graphs of nl left nodes 0..nl-1 and nr right nodes in which no left node
\* has more than k neighbours.
SparseGraphs(nl, nr, k) ==
    LET choices == {S \in SUBSET (nl..(nl + nr - 1)) : Cardinality(S) <= k}
    IN {[n |-> nl + nr,
         edges |-> {e \in (0..(nl - 1)) \X (nl..(nl + nr - 1)) : e[2] \in f[e[1]]},
         directed |-> FALSE] : f \in [0..(nl - 1) -> choices]}

\* A call of hopcroft_karp_matching on a sparse graph, its left side as top_nodes.
InitPhases ==
    \E n \in 2..MaxPhaseNodes : \E g \in SparseGraphs(n \div 2, n - (n \div 2), n \div 4) :
        Start(g, [given |-> TRUE, nodes |-> 0..((n \div 2) - 1)], "maximum_matching",
              NoMatching, {}, "call")

NextPhases == InitSearch \/ Bfs \/ DfsStep \/ Strip

SpecPhases == InitPhases /\ [][NextPhases]_vars

\* A call of minimum_weight_envy_free_matching.
InitWeight ==
    \E n \in 0..MaxWeightNodes : \E nl \in 0..n : \E g \in GraphsOn(n, nl) : \E tn \in Hints(n, nl) :
        Start(g, tn, "minimum_weight_envy_free_matching", NoMatching, {}, "call")

NextWeight ==
    RaiseFromSets \/ InitSearch \/ Bfs \/ DfsStep \/ Strip \/ Partition \/ FullMatching

SpecWeight == InitWeight /\ [][NextWeight]_vars

NextReach == Reach

SpecReach == InitReach /\ [][NextReach]_vars

----------------------------------------------------------------------------
(* Vocabulary of the properties *)

\* hopcroft_karp_matching has returned and `matching` holds its result.
HkReturned == RunsEngine /\ pc \in {"partition", "filter", "returned"}

Pairs(m) == Cardinality(DOMAIN m) \div 2

K(m, n) == [n |-> m + n, edges |-> (0..(m - 1)) \X (m..(m + n - 1)), directed |-> FALSE]


IsCompleteBipartite(g, L, R) == \A u \in L : \A v \in R : HasEdge(g, u, v)

\* m is a maximum matching of g.
IsMaximum(g, m) == m \in Matchings(g) /\ Pairs(m) = MaxMatchingSize(g)

\* No left node unmatched by m has a neighbour matched by m.
EnvyFree(g, L, m) ==
    \A x \in L \ DOMAIN m : \A y \in Neighbors(g, x) : y \notin DOMAIN m

Disconnected(g) == g.n > 0 /\ ~is_connected(g)

----------------------------------------------------------------------------
(* Properties *)

\* C1: the mapping hopcroft_karp_matching returns is a valid matching: it is
\* symmetric, no two keys of one side share a partner, and every pair is an
\* edge of G between a Left node and a Right node.
C1_MatchingValid ==
    HkReturned =>
        /\ \A u \in DOMAIN matching :
              /\ matching[u] \in DOMAIN matching
              /\ matching[matching[u]] = u
              /\ HasEdge(G, u, matching[u])
              /\ \/ u \in left /\ matching[u] \in right
                 \/ u \in right /\ matching[u] \in left
        /\ \A u, v \in DOMAIN matching :
              (u # v /\ (u \in left <=> v \in left)) => matching[u] # matching[v]

\* A returned matching of two pairs, found with the sides inferred.
C1_Witness ==
    /\ op = "maximum_matching" /\ pc = "returned"
    /\ ~top_nodes.given
    /\ Pairs(matching) = 2

\* C2: the returned matching has maximum cardinality: no matching of G has
\* more pairs, and on K(m,n) it has exactly min(m,n) pairs.
C2_MatchingMaximum ==
    HkReturned =>
        /\ \A m \in Matchings(G) : Pairs(m) <= Pairs(matching)
        /\ IsCompleteBipartite(G, left, right) =>
              Pairs(matching) = Min(Cardinality(left), Cardinality(right))

\* K(2,3) matched with two pairs.
C2_Witness ==
    /\ op = "maximum_matching" /\ pc = "returned"
    /\ G = K(2, 3)
    /\ Pairs(matching) = 2

\* C3: the set to_vertex_cover returns for a maximum matching covers every edge.
C3_CoverCoversEdges ==
    (op = "to_vertex_cover" /\ pc = "returned" /\ IsMaximum(G, M.map)) =>
        \A e \in G.edges : e[1] \in cover \/ e[2] \in cover

\* A cover, for a maximum matching, that takes a node of each side.
C3_Witness ==
    /\ op = "to_vertex_cover" /\ pc = "returned" /\ IsMaximum(G, M.map)
    /\ cover \cap left # {}
    /\ cover \cap right # {}

\* C4: the cover has as many nodes as the maximum matching has pairs.
C4_CoverSize ==
    (op = "to_vertex_cover" /\ pc = "returned" /\ IsMaximum(G, M.map)) =>
        Cardinality(cover) = Pairs(M.map)

\* The cover of K(2,3) for a maximum matching has 2 nodes.
C4_Witness ==
    /\ op = "to_vertex_cover" /\ pc = "returned" /\ IsMaximum(G, M.map)
    /\ G = K(2, 3)
    /\ Cardinality(cover) = 2

\* C5: the matching maximum_envy_free_matching returns is envy-free.
C5_EnvyFree ==
    (op = "maximum_envy_free_matching" /\ pc = "returned") => EnvyFree(G, left, efm)

\* A non-empty result that leaves a left node with a neighbour unmatched.
C5_Witness ==
    /\ op = "maximum_envy_free_matching" /\ pc = "returned"
    /\ efm # EmptyMap
    /\ \E x \in left \ DOMAIN efm : Neighbors(G, x) # {}

\* C6: no envy-free matching of G has more pairs than the result of
\* maximum_envy_free_matching.
C6_EnvyFreeMaximum ==
    (op = "maximum_envy_free_matching" /\ pc = "returned") =>
        \A m \in Matchings(G) : EnvyFree(G, left, m) => Pairs(m) <= Pairs(efm)

\* A non-empty result with fewer pairs than the maximum matching.
C6_Witness ==
    /\ op = "maximum_envy_free_matching" /\ pc = "returned"
    /\ Pairs(efm) > 0
    /\ Pairs(efm) < Pairs(matching)

\* C7: X_good and X_bad partition Left, Y_good and Y_bad partition Right.
C7_PartitionExact ==
    (op = "envy_free_matching_partition" /\ pc = "returned") =>
        /\ partition.X_good \cap partition.X_bad = {}
        /\ partition.X_good \cup partition.X_bad = left
        /\ partition.Y_good \cap partition.Y_bad = {}
        /\ partition.Y_good \cup partition.Y_bad = right

\* A partition, for a matching that is not maximum, with bad nodes on both
\* sides and a good right node.
C7_Witness ==
    /\ op = "envy_free_matching_partition" /\ pc = "returned"
    /\ ~IsMaximum(G, M.map)
    /\ partition.X_bad # {} /\ partition.Y_bad # {} /\ partition.Y_good # {}

\* C8: the partition is the same for every maximum matching of G that is
\* supplied, and the same as for the matching computed when M is omitted.
C8_PartitionUnique ==
    (op = "envy_free_matching_partition" /\ pc = "returned" /\ IsMaximum(G, M.map)) =>
        /\ \A m \in MaximumMatchings(G) :
              envy_free_matching_partition(G, m, top_nodes) = partition
        /\ envy_free_matching_partition(G, hopcroft_karp_matching(G, top_nodes), top_nodes)
              = partition

\* A partition with bad nodes, for a maximum matching other than the computed
\* one, of a graph that has several maximum matchings.
C8_Witness ==
    /\ op = "envy_free_matching_partition" /\ pc = "returned" /\ IsMaximum(G, M.map)
    /\ M.map # hopcroft_karp_matching(G, top_nodes)
    /\ partition.X_bad # {} /\ partition.Y_bad # {} /\ partition.X_good # {}

\* C9: every target is in the set _connected_by_alternating_paths returns.
C9_TargetsIncluded ==
    (op = "_connected_by_alternating_paths" /\ pc = "returned") => targets \subseteq reach

\* A result that holds a target no alternating path joins to a target, and
\* a node that is no target.
C9_Witness ==
    /\ op = "_connected_by_alternating_paths" /\ pc = "returned"
    /\ \E t \in targets :
          ~IsConnectedByAlternatingPath(G, t, EdgeSets(M.map), UnmatchedEdges(G, M.map), targets)
    /\ reach \ targets # {}

\* C10: on a disconnected graph without a hint the call raises
\* AmbiguousSolution as its first step: no search state is built, no BFS or
\* DFS runs and no matching is returned.
C10_AmbiguousRaised ==
    (RunsEngine /\ Disconnected(G) /\ ~top_nodes.given /\ pc # "call") =>
        /\ pc = "raised"
        /\ raised = "AmbiguousSolution"
        /\ phases = 0
        /\ leftmatches = EmptyMap /\ rightmatches = EmptyMap /\ distances = EmptyMap
        /\ matching = EmptyMap

\* maximum_matching raised on two disjoint edges.
C10_Witness ==
    /\ op = "maximum_matching" /\ pc = "raised" /\ raised = "AmbiguousSolution"
    /\ ~top_nodes.given
    /\ G = [n |-> 4, edges |-> {<<0, 2>>, <<1, 3>>}, directed |-> FALSE]

----------------------------------------------------------------------------
(* Directed graphs *)

\* C11: a call of any public function on a directed graph ends at once with the
\* unsupported-graph-type error: it never runs a line of its body, and never returns.
C11_DirectedRejected ==
    (G.directed /\ pc # "call") => (pc = "raised" /\ raised = "NetworkXNotImplemented")

----------------------------------------------------------------------------
(* Malformed matchings *)

\* C12: to_vertex_cover and envy_free_matching_partition never return a result for
\* a matching argument with a key or value outside the graph, or one that is not
\* symmetric: the call ends with an error.
C12_MalformedRejected == Malformed(G, M.map) => pc # "returned"

----------------------------------------------------------------------------
(* to_vertex_cover with a matching that is not maximum *)

\* The matching handed to to_vertex_cover is a matching of G, but not a maximum one.
NonMaximumCover == op = "to_vertex_cover" /\ M.map \in Matchings(G) /\ ~IsMaximum(G, M.map)

\* C13, as stated: to_vertex_cover with a valid matching that is not maximum never
\* raises an error.
C13_NonMaximumNeverRaises == NonMaximumCover => raised = "none"

\* C13, amended: when bipartite_sets can tell the two sides (top_nodes is given, or
\* G is connected), to_vertex_cover with a valid matching that is not maximum raises
\* nothing, is at one of the lines 492, 498, 501 or has returned, and returns a set
\* of nodes of G.
C13_NonMaximumCompletes ==
    (NonMaximumCover /\ SetsRaises(G, top_nodes) = "none") =>
        /\ raised = "none"
        /\ pc \in {"call", "reach", "cover", "returned"}
        /\ pc = "returned" => cover \subseteq Nodes(G)

\* to_vertex_cover has returned a non-empty cover for a non-empty matching that is
\* not maximum.
C13_Witness ==
    /\ NonMaximumCover
    /\ M.map # EmptyMap
    /\ pc = "returned"
    /\ cover # {}

----------------------------------------------------------------------------
(* The empty graph *)

\* C14: maximum_matching on the graph without nodes raises no error, finds no
\* augmenting path in its one breadth_first_search(), and returns the empty mapping.
C14_EmptyGraphEmptyMatching ==
    (op = "maximum_matching" /\ G.n = 0 /\ pc # "call") =>
        /\ raised = "none"
        /\ pc \in {"bfs", "strip", "returned"}
        /\ phases = 0
        /\ pc = "returned" => matching = EmptyMap

\* The call on the graph without nodes, top_nodes omitted, has returned.
C14_Witness ==
    /\ op = "maximum_matching" /\ G.n = 0 /\ ~top_nodes.given
    /\ pc = "returned" /\ raised = "none" /\ matching = EmptyMap

----------------------------------------------------------------------------
(* Self-loops *)

HasLoop(g) == \E v \in Nodes(g) : <<v, v>> \in g.edges

\* C15: on a graph with a self-loop and top_nodes given, maximum_matching ends by
\* returning a matching in which no node is matched to itself and every pair is an
\* edge of G that is no loop.
C15_LoopNeverMatched ==
    (HasLoop(G) /\ op = "maximum_matching" /\ top_nodes.given
        /\ pc \in {"returned", "raised"}) =>
        /\ pc = "returned"
        /\ \A v \in DOMAIN matching : matching[v] # v /\ HasEdge(G, v, matching[v])

----------------------------------------------------------------------------
(* The odd path *)

\* The path 0-3, 1-3, 1-4, 2-4 with Left = {0, 1, 2} and Right = {3, 4}.
OddPath == [n |-> 5, edges |-> {<<0, 3>>, <<1, 3>>, <<1, 4>>, <<2, 4>>}, directed |-> FALSE]

\* top_nodes omitted (the colouring puts node 0 on the left), or the left side.
OddPathHints == {[given |-> FALSE, nodes |-> {}], [given |-> TRUE, nodes |-> {0, 1, 2}]}

\* The matching {0: 3, 3: 0, 1: 4, 4: 1}.
OddPathMatching == AsMap({<<0, 3>>, <<1, 4>>})

\* C16: on the odd path maximum_envy_free_matching returns the empty mapping, and
\* envy_free_matching_partition with M = {0: 3, 3: 0, 1: 4, 4: 1} returns
\* (set(), {0, 1, 2}, set(), {3, 4}).
C16_OddPath ==
    /\ (op = "maximum_envy_free_matching" /\ G = OddPath /\ top_nodes \in OddPathHints
            /\ pc = "returned") => efm = EmptyMap
    /\ (G = OddPath /\ top_nodes \in OddPathHints) =>
           envy_free_matching_partition(G, OddPathMatching, top_nodes)
               = [X_good |-> {}, X_bad |-> {0, 1, 2}, Y_good |-> {}, Y_bad |-> {3, 4}]

\* maximum_envy_free_matching has returned on the odd path, from a maximum matching
\* of two pairs and a partition whose bad sets hold every node.
C16_Witness ==
    /\ op = "maximum_envy_free_matching"
    /\ G = OddPath
    /\ top_nodes \in OddPathHints
    /\ pc = "returned"
    /\ Pairs(matching) = 2
    /\ partition.X_bad = {0, 1, 2}
    /\ partition.Y_bad = {3, 4}

----------------------------------------------------------------------------
(* eppstein_matching and hopcroft_karp_matching *)

\* The matching eppstein_matching starts from (lines 238-243), as a number of pairs.
GreedyPairs(g, tn) ==
    LET edges == EdgeList(g, SetToSeq(bipartite_sets(g, tn)[1]))
    IN Len(GreedyMatching(edges, DiGraphNodes(edges, <<>>), DictEmpty).keys)

\* C17: for the same graph and top_nodes, eppstein_matching and
\* hopcroft_karp_matching both return a matching of G with both directions of every
\* pair, the two have the same number of pairs, which is the maximum, and every
\* matched node is a key of the result of eppstein_matching.
C17_EppsteinAgrees ==
    (op = "eppstein_matching" /\ pc = "returned") =>
        LET hk == hopcroft_karp_matching(G, top_nodes)
        IN /\ matching \in Matchings(G)
           /\ hk \in Matchings(G)
           /\ Pairs(matching) = Pairs(hk)
           /\ Pairs(matching) = MaxMatchingSize(G)
           /\ \A v \in DOMAIN matching :
                  matching[v] \in DOMAIN matching /\ matching[matching[v]] = v

\* eppstein_matching has returned a matching of three pairs that its greedy start
\* did not reach.
C17_Witness ==
    /\ op = "eppstein_matching"
    /\ pc = "returned"
    /\ Pairs(matching) = 3
    /\ GreedyPairs(G, top_nodes) < 3

----------------------------------------------------------------------------
(* envy_free_matching of envy_free_matching.py *)

\* C18: envy_free_matching(G) returns an envy-free matching of G that no envy-free
\* matching of G exceeds in pairs; for K(3,3) it has the six keys 0..5.
C18_StubMaximumEnvyFree ==
    (op = "envy_free_matching" /\ pc = "returned") =>
        /\ efm \in Matchings(G)
        /\ EnvyFree(G, left, efm)
        /\ \A m \in Matchings(G) : EnvyFree(G, left, m) => Pairs(m) <= Pairs(efm)
        /\ G = K(3, 3) => DOMAIN efm = 0..5

----------------------------------------------------------------------------
(* The layering of breadth_first_search *)

\* The last step was a breadth_first_search(): `distances` holds the labels it
\* left for the matching in leftmatches and rightmatches.
AfterBfs == RunsEngine /\ (pc = "strip" \/ (pc = "dfs" /\ todo = SetToSeq(left)))

RECURSIVE AlternatingReach(_, _, _)
\* The left nodes reached from the left nodes S by any edge to the right and then
\* the matched edge of that right node back to the left.
AlternatingReach(g, rm, S) ==
    LET T == S \cup {rm[u] : u \in {y \in UNION {Neighbors(g, v) : v \in S} : rm[y] # None}}
    IN IF T = S THEN S ELSE AlternatingReach(g, rm, T)

\* An augmenting path: from an unmatched left node to an unmatched right node.
AugmentingPathExists(g, lft, lm, rm) ==
    \E v \in AlternatingReach(g, rm, {x \in lft : lm[x] = None}) :
        \E u \in Neighbors(g, v) : rm[u] = None

\* C19: a breadth_first_search() returns true, the label of the sentinel being
\* finite, exactly when the matching it ran on has an augmenting path.
C19_BfsFindsAugmentingPath ==
    AfterBfs =>
        /\ (distances[None] # INFINITY)
               <=> AugmentingPathExists(G, left, leftmatches, rightmatches)
        /\ (pc = "dfs") <=> (distances[None] # INFINITY)

\* The breadth_first_search() of a second phase returned true: the augmenting path
\* it found goes back to the left along a matched edge.
C19_Witness ==
    /\ AfterBfs
    /\ pc = "dfs"
    /\ phases = 2
    /\ distances[None] = 2

RECURSIVE HopLabels(_, _, _, _, _)
\* The hop distances from the unmatched left nodes: <<node, k>> for every node of
\* `frontier`, at k hops, and for the nodes further on. A hop is an edge to the
\* right and the matched edge back, or an edge to an unmatched right node, which
\* leads to the sentinel.
HopLabels(g, rm, frontier, seen, k) ==
    IF frontier = {} THEN {}
    ELSE LET next == {rm[u] : u \in UNION {Neighbors(g, v) : v \in frontier \ {None}}} \ seen
         IN {<<v, k>> : v \in frontier} \cup HopLabels(g, rm, next, seen \cup next, k + 1)

\* C20: after a breadth_first_search() every finite label, of a left node or of the
\* sentinel, is the least number of hops from an unmatched left node, and no
\* assignment of the search replaced a finite label or wrote a node twice.
C20_LabelsAreHopDistances ==
    AfterBfs =>
        LET start  == {x \in left : leftmatches[x] = None}
            labels == HopLabels(G, rightmatches, start, start, 0)
            writes == BfsWrites(G, left, leftmatches, rightmatches)
        IN /\ \A v \in DOMAIN distances :
                  distances[v] # INFINITY => <<v, distances[v]>> \in labels
           /\ \A i \in 1..Len(writes) : writes[i][2] = INFINITY
           /\ \A i, j \in 1..Len(writes) : writes[i][1] = writes[j][1] => i = j

\* A breadth_first_search() has labelled a matched left node 1 and the sentinel 2.
C20_Witness ==
    /\ AfterBfs
    /\ \E v \in left : leftmatches[v] # None /\ distances[v] = 1
    /\ distances[None] = 2
    /\ Len(BfsWrites(G, left, leftmatches, rightmatches)) >= 2

----------------------------------------------------------------------------
(* The depth-first searches of a phase *)

\* The next step is a top-level depth_first_search(v), v the head of todo.
BeforeDfs == RunsEngine /\ pc = "dfs" /\ todo # <<>> /\ leftmatches[Head(todo)] = None

\* What that depth_first_search returns and leaves.
NextDfs ==
    depth_first_search(G, Head(todo), SearchState(leftmatches, rightmatches, distances))

\* C21: a depth-first search goes from a left node v to rightmatches[u] only when
\* the label of rightmatches[u] is the label of v plus one; a left node it gives up
\* on has the label infinity from then on; and it enters only nodes whose label is
\* finite, so that no search of the phase enters a node that one gave up on.
C21_DfsFollowsLabels ==
    BeforeDfs =>
        LET r  == NextDfs
            ev == r.st.events
        IN /\ \A i \in 1..Len(ev) :
                  ev[i].kind = "step" =>
                      ev[i].dfrom # INFINITY /\ ev[i].dto = ev[i].dfrom + 1
           /\ \A i \in 1..Len(ev) :
                  ev[i].kind = "fail" => r.st.distances[ev[i].from] = INFINITY
           /\ \A i \in 1..Len(ev) : ev[i].kind = "enter" => ev[i].dfrom # INFINITY
           /\ \A i, j \in 1..Len(ev) :
                  (i < j /\ ev[i].kind = "fail" /\ ev[j].kind = "enter")
                      => ev[j].from # ev[i].from
           /\ \A x \in left : distances[x] = INFINITY => r.st.distances[x] = INFINITY

\* The search about to run gives up on a matched left node it went to and then
\* succeeds along another neighbour.
C21_Witness ==
    /\ BeforeDfs
    /\ NextDfs.ok
    /\ \E i \in 1..Len(NextDfs.st.events) :
           /\ NextDfs.st.events[i].kind = "fail"
           /\ leftmatches[NextDfs.st.events[i].from] # None

\* The keys of a search dictionary that have a partner.
MatchedKeys(f) == {x \in DOMAIN f : f[x] # None}

\* C22: a top-level depth-first search that returns true adds exactly one pair and
\* keeps every matched node matched; one that returns false, or is not made because
\* the node is matched, leaves leftmatches and rightmatches as they were.
C22_DfsAddsOnePair ==
    [][(RunsEngine /\ pc = "dfs") =>
          IF leftmatches[Head(todo)] = None /\ NextDfs.ok
          THEN /\ Cardinality(MatchedKeys(leftmatches')) = Cardinality(MatchedKeys(leftmatches)) + 1
               /\ Cardinality(MatchedKeys(rightmatches')) = Cardinality(MatchedKeys(rightmatches)) + 1
               /\ MatchedKeys(leftmatches) \subseteq MatchedKeys(leftmatches')
               /\ MatchedKeys(rightmatches) \subseteq MatchedKeys(rightmatches')
               /\ num_matched_pairs' = num_matched_pairs + 1
          ELSE /\ leftmatches' = leftmatches
               /\ rightmatches' = rightmatches
               /\ num_matched_pairs' = num_matched_pairs]_vars

\* The searches of a second phase are over and left three pairs, one more than
\* nodes of the smaller side could hold without the rerouting of a pair.
C22_Witness ==
    /\ RunsEngine
    /\ pc = "bfs"
    /\ phases = 2
    /\ num_matched_pairs = 3
    /\ Cardinality(MatchedKeys(leftmatches)) = 3

----------------------------------------------------------------------------
(* Termination of hopcroft_karp_matching *)

\* A phase begins: breadth_first_search() returned true and no depth-first
\* search of the phase has run.
PhaseBegins == RunsEngine /\ pc = "dfs" /\ todo = SetToSeq(left)

\* The number of pairs the for loop of lines 169-171 leaves, run from here.
PairsAfterRound ==
    Cardinality(MatchedKeys(
        DfsRound(G, todo, SearchState(leftmatches, rightmatches, distances)).leftmatches))

\* The while loop was left because breadth_first_search() returned false.
LoopExited == RunsEngine /\ pc \in {"strip", "returned"} /\ distances[None] = INFINITY

\* C23: every phase whose breadth_first_search() returned true matches at least
\* one more pair in its round of depth-first searches, the number of phases never
\* exceeds min(|left|, |right|), and every call that got past bipartite_sets
\* leaves the while loop with breadth_first_search() returning false.
C23_Terminates ==
    /\ [](PhaseBegins => PairsAfterRound > Cardinality(MatchedKeys(leftmatches)))
    /\ [](phases <= Min(Cardinality(left), Cardinality(right)))
    /\ [](pc = "bfs" => <>LoopExited)

\* The loop was left after two phases.
C23_Witness == LoopExited /\ pc = "strip" /\ phases = 2

----------------------------------------------------------------------------
(* The phases of hopcroft_karp_matching *)

\* C24: the distance breadth_first_search() gives the sentinel None, the length of
\* the shortest augmenting path of the phase counted in left nodes, is strictly
\* larger in each phase than in the phase before it.
C24_SentinelDistanceIncreases ==
    [][(RunsEngine /\ pc = "bfs" /\ phases >= 1 /\ distances'[None] # INFINITY)
           => distances'[None] > distances[None]]_vars

\* A third phase began, whose shortest augmenting path passes three left nodes.
C24_Witness == PhaseBegins /\ phases = 3 /\ distances[None] = 3

----------------------------------------------------------------------------
(* Alternating reachability *)

RECURSIVE AlternatingClosure(_, _, _)
\* The pairs <<node, kind>> such that an alternating path of g from a pair of S
\* ends at the node and would go on with an edge of that kind (TRUE: an edge of
\* the matching m), S included.
AlternatingClosure(g, m, S) ==
    LET more == UNION {{<<y, ~s[2]>> : y \in
                    {z \in Nodes(g) : /\ {s[1], z} \in {{e[1], e[2]} : e \in g.edges}
                                      /\ ({s[1], z} \in EdgeSets(m)) = s[2]}} : s \in S}
    IN IF more \subseteq S THEN S ELSE AlternatingClosure(g, m, S \cup more)

\* Some path of at least one edge, alternating between edges of m and edges
\* outside m, of either kind first, joins v to a node of tg.
JoinedByAlternatingPath(g, m, v, tg) ==
    \E first \in BOOLEAN : \E y \in Nodes(g) :
        /\ {v, y} \in {{e[1], e[2]} : e \in g.edges}
        /\ ({v, y} \in EdgeSets(m)) = first
        /\ \E s \in AlternatingClosure(g, m, {<<y, ~first>>}) : s[1] \in tg

\* C25: _connected_by_alternating_paths(G, M, T) returns exactly the targets and
\* the nodes that an alternating path joins to a target.
C25_ExactlyAlternatingReachable ==
    (op = "_connected_by_alternating_paths" /\ pc = "returned") =>
        reach = {v \in Nodes(G) : v \in targets \/ JoinedByAlternatingPath(G, M.map, v, targets)}

\* The result holds a node that is no target, whose alternating paths to the
\* targets all begin with an edge of the matching and have three edges.
C25_Witness ==
    /\ op = "_connected_by_alternating_paths" /\ pc = "returned"
    /\ \E v \in reach \ targets :
          /\ \A y \in Nodes(G) : {v, y} \in UnmatchedEdges(G, M.map) =>
                 \A s \in AlternatingClosure(G, M.map, {<<y, TRUE>>}) : s[1] \notin targets
          /\ \A y \in Nodes(G) : {v, y} \in EdgeSets(M.map) =>
                 /\ y \notin targets
                 /\ \A z \in Nodes(G) : {y, z} \in UnmatchedEdges(G, M.map) => z \notin targets

----------------------------------------------------------------------------
(* The alternating sequence *)

\* envy_free_matching_partition returned for the matching it was handed.
PartitionReturned == op = "envy_free_matching_partition" /\ M.given /\ pc = "returned"

\* The sequence its call of _M_alternating_sequence returned (line 777).
SequenceOfCall == M_alternating_sequence(G, M.map, top_nodes)

\* C26 as stated: the body of the loop is entered at most |Right| times.
C26_AtMostRightPasses ==
    PartitionReturned => SequenceOfCall.passes <= Cardinality(right)

\* C26: the loop of _M_alternating_sequence ends; each Y_i it appended is a
\* non-empty set of right nodes disjoint from the ones appended before, so at
\* most |Right| passes append, and one more pass, which appends nothing, leaves
\* the loop.
C26_LoopEnds ==
    PartitionReturned =>
        LET sq == SequenceOfCall
        IN /\ \A i \in 1..Len(sq.Y) : sq.Y[i] # {} /\ sq.Y[i] \subseteq right
           /\ \A i, j \in 1..Len(sq.Y) : i < j => sq.Y[i] \cap sq.Y[j] = {}
           /\ Len(sq.Y) <= Cardinality(right)
           /\ sq.passes <= Len(sq.Y) + 1
           /\ sq.passes <= Cardinality(right) + 1

\* Every right node was appended, one at a pass, and a last pass left the loop.
C26_Witness ==
    /\ PartitionReturned
    /\ Cardinality(right) = 2
    /\ Len(SequenceOfCall.Y) = 2
    /\ SequenceOfCall.passes = 3

----------------------------------------------------------------------------
(* The alternating sequence as it is defined *)

\* The neighbours of the nodes of X over edges of g outside the matching m.
NonMatchingNeighbours(g, m, X) ==
    {y \in Nodes(g) : \E x \in X : {x, y} \in UnmatchedEdges(g, m)}

\* The partners in m of the nodes of Y.
MatchingPartners(m, Y) == {m[y] : y \in Y \cap DOMAIN m}

RECURSIVE DefinedSequence(_, _, _, _, _)
\* X_0, X_1, ... and Y_1, Y_2, ... from the sets Xs and Ys found so far (Xlast the
\* last X-set): Y_i = the neighbours of X_(i-1) over non-matching edges that are in
\* no earlier Y-set, X_i = the partners of Y_i, ending at the first index where
\* Y_i or X_i is empty. The result is the union of the X-sets and of the Y-sets.
DefinedSequence(g, m, Xlast, Xs, Ys) ==
    LET Y_i == NonMatchingNeighbours(g, m, Xlast) \ Ys
        X_i == MatchingPartners(m, Y_i)
    IN IF Y_i = {} \/ X_i = {}
       THEN [X |-> Xs \cup X_i, Y |-> Ys \cup Y_i]
       ELSE DefinedSequence(g, m, X_i, Xs \cup X_i, Ys \cup Y_i)

\* The unions of the sequence defined for the left side L of g and the matching m.
DefinedBadSets(g, m, L) == DefinedSequence(g, m, L \ DOMAIN m, L \ DOMAIN m, {})

\* C27: X_bad is the union of the X-sets and Y_bad the union of the Y-sets of the
\* alternating sequence as defined, for every matching handed to
\* envy_free_matching_partition.
C27_BadSetsAreSequenceUnions ==
    PartitionReturned =>
        /\ partition.X_bad = DefinedBadSets(G, M.map, left).X
        /\ partition.Y_bad = DefinedBadSets(G, M.map, left).Y

----------------------------------------------------------------------------
(* Matched pairs and the regions of the partition *)

\* No pair of the matching m has one node in a bad set of p and one in a good set.
NoPairStraddles(m, p) ==
    \A u \in DOMAIN m :
        (u \in p.X_bad \cup p.Y_bad) <=> (m[u] \in p.X_bad \cup p.Y_bad)

\* C28: for every maximum matching of G no matched pair straddles the regions of
\* its partition, and what maximum_envy_free_matching returns is a part of the
\* matching it computed, holds both directions of each of its pairs, and matches
\* every node of X_good.
C28_PairsStayInRegion ==
    (op = "maximum_envy_free_matching" /\ pc = "returned") =>
        /\ \A m \in MaximumMatchings(G) :
               NoPairStraddles(m, envy_free_matching_partition(G, m, top_nodes))
        /\ NoPairStraddles(matching, partition)
        /\ DOMAIN efm \subseteq DOMAIN matching
        /\ \A u \in DOMAIN efm :
               efm[u] = matching[u] /\ efm[u] \in DOMAIN efm /\ efm[efm[u]] = u
        /\ partition.X_good \subseteq DOMAIN efm

\* The result keeps some pairs of the matching and drops others.
C28_Witness ==
    /\ op = "maximum_envy_free_matching" /\ pc = "returned"
    /\ efm # EmptyMap
    /\ DOMAIN efm # DOMAIN matching
    /\ partition.X_good # {} /\ partition.Y_bad # {}
    /\ Cardinality(MaximumMatchings(G)) > 1

----------------------------------------------------------------------------
(* The partition of a maximum matching *)

\* C29: for a maximum matching no edge of G joins a node of X_bad to a node of
\* Y_good, every Y_i of the alternating sequence holds only nodes matched by M,
\* and X_i has as many nodes as Y_i for every i >= 1.
C29_BadSideClosed ==
    (PartitionReturned /\ IsMaximum(G, M.map)) =>
        LET sq == SequenceOfCall
        IN /\ \A x \in partition.X_bad : Neighbors(G, x) \cap partition.Y_good = {}
           /\ \A i \in 1..Len(sq.Y) :
                  /\ sq.Y[i] \subseteq DOMAIN M.map
                  /\ Cardinality(sq.X[i + 1]) = Cardinality(sq.Y[i])

\* A sequence whose first step takes two right nodes at once, with their partners.
C29_Witness ==
    /\ PartitionReturned /\ IsMaximum(G, M.map)
    /\ Len(SequenceOfCall.Y) = 1
    /\ Cardinality(SequenceOfCall.Y[1]) = 2
    /\ Cardinality(partition.X_bad) = 3

----------------------------------------------------------------------------
(* minimum_weight_envy_free_matching and the hint *)

\* C30: given top_nodes, minimum_weight_envy_free_matching never raises
\* AmbiguousSolution, also when the subgraph of the good nodes is disconnected.
C30_HintPreventsAmbiguous ==
    (op = "minimum_weight_envy_free_matching" /\ top_nodes.given)
        => raised # "AmbiguousSolution"

============================================================================
